---- MODULE Spec2Model ----
(***************************************************************************)
(* Model of the GitHub activity aggregation of app.py: the four           *)
(* aggregation operations (get_repo_count, get_repos_created_this_year,   *)
(* get_daily_commit_dates, get_github_monthly_commits), the two pure      *)
(* date functions (compute_streak, get_weekly_streak_increase), the       *)
(* st.cache_data wrapper and the Home page script that calls them.        *)
(*                                                                         *)
(* Encodings.  A datetime.date object is its proleptic Gregorian ordinal  *)
(* (an integer, as date.toordinal()).  A date string "YYYY-MM-DD" is the  *)
(* tuple <<y, m, d>>; an ISO-8601 timestamp "YYYY-MM-DDTHH:..." is        *)
(* <<y, m, d, h>>; s[:10] and s[:7] are the prefixes of length 3 and 2.   *)
(* Python's string order on such zero-padded strings is the               *)
(* lexicographic order of the tuples.                                     *)
(***************************************************************************)
EXTENDS Integers, Sequences, FiniteSets, TLC

\* ------------------------------------------------------------------ bounds
\* Largest day offset before today drawn for the date lists of SpecDates.
MaxOffset == 10

\* ------------------------------------------------------------ calendar
Years == 2023..2026

IsLeap(y) == (y % 4 = 0) /\ ((y % 100 # 0) \/ (y % 400 = 0))

DaysInMonth(y, m) ==
    IF m = 2 THEN (IF IsLeap(y) THEN 29 ELSE 28)
    ELSE IF m \in {4, 6, 9, 11} THEN 30 ELSE 31

DaysBeforeYear(y) ==
    (y - 1) * 365 + ((y - 1) \div 4) - ((y - 1) \div 100) + ((y - 1) \div 400)

RECURSIVE DaysBeforeMonth(_, _)
DaysBeforeMonth(y, m) ==
    IF m = 1 THEN 0 ELSE DaysBeforeMonth(y, m - 1) + DaysInMonth(y, m - 1)

\* date(y, m, d).toordinal()
ToOrdinal(s) == DaysBeforeYear(s[1]) + DaysBeforeMonth(s[1], s[2]) + s[3]

\* str(date.fromordinal(n)): the "YYYY-MM-DD" string of a date object.
DateStr(n) ==
    LET y == CHOOSE yy \in Years :
                 DaysBeforeYear(yy) < n /\ n <= DaysBeforeYear(yy + 1)
        r == n - DaysBeforeYear(y)
        m == CHOOSE mm \in 1..12 :
                 DaysBeforeMonth(y, mm) < r
                 /\ r <= DaysBeforeMonth(y, mm) + DaysInMonth(y, mm)
    IN  <<y, m, r - DaysBeforeMonth(y, m)>>

\* Python's s[:k] on a string.
Prefix(s, k) == SubSeq(s, 1, IF Len(s) < k THEN Len(s) ELSE k)

\* a < b in Python's string order (lexicographic, a proper prefix is smaller).
RECURSIVE StrLess(_, _)
StrLess(a, b) ==
    IF b = <<>> THEN FALSE
    ELSE IF a = <<>> THEN TRUE
    ELSE IF a[1] # b[1] THEN a[1] < b[1]
    ELSE StrLess(Tail(a), Tail(b))

StrGeq(a, b) == ~StrLess(a, b)

Range(s) == {s[i] : i \in 1..Len(s)}

\* sorted(S) for a set of strings: ascending in Python's string order.
RECURSIVE sorted(_)
sorted(S) ==
    IF S = {} THEN <<>>
    ELSE LET lo == CHOOSE x \in S : \A z \in S : ~StrLess(z, x)
         IN  <<lo>> \o sorted(S \ {lo})

\* len([x for x in seq if P]) helpers
RECURSIVE CountGeq(_, _)
CountGeq(seq, bound) ==
    IF seq = <<>> THEN 0
    ELSE (IF StrGeq(Head(seq), bound) THEN 1 ELSE 0) + CountGeq(Tail(seq), bound)

\* ------------------------------------------------------- pure functions
\* compute_streak: walk back from today while str(day) is in dates.
RECURSIVE streak_loop(_, _, _)
streak_loop(dates, day, streak) ==
    IF DateStr(day) \in Range(dates)
    THEN streak_loop(dates, day - 1, streak + 1)
    ELSE streak

compute_streak_from_yesterday(dates, today) == streak_loop(dates, today - 1, 0)

compute_streak(dates, today) == streak_loop(dates, today, 0)

\* get_weekly_streak_increase: len([d for d in dates if d >= str(today - 7)])
weekly_strictly_after(dates, today) ==
    CountGeq(dates, DateStr(today - 6))

get_weekly_streak_increase(dates, today) ==
    LET one_week_ago == today - 7
    IN  CountGeq(dates, DateStr(one_week_ago))

\* ------------------------------------------------------------ constants
\* per_page of the listing requests (params of get_repo_count, URL of
\* get_repos_created_this_year) and the loop's full-page test.
PerPage == 100
\* st.cache_data(ttl=3600)
TTL == 3600
\* timedelta(days=months * 30)
DaysPerMonth == 30

GITHUB_USER == "duckola"
Users == {GITHUB_USER, "octocat"}
\* months=6 is the default and the Home page's value for the daily dates,
\* months=5 the Home page's value for the histogram.
MonthsArgs == {5, 6}
CachedOps == {"get_daily_commit_dates", "get_github_monthly_commits"}
Ops == {"get_repo_count", "get_repos_created_this_year"} \cup CachedOps

\* What one HTTP request can come to: a 200 response, a non-2xx response
\* (rate limit, empty repository, server error), or requests.get raising
\* (connection error, timeout).
Outcomes == {"200", "403", "error"}

\* ------------------------------------------------------------- upstream
VARIABLES
    srv,            \* the hosting API: user -> [repos, commits, perPage]
    now,            \* wall clock datetime.now(): [day |-> ordinal, hour |-> h]
    clock,          \* seconds since the process started (cache timer)
    cache,          \* st.cache_data: key -> [present, at, ret]
    pc,             \* position of the running call, "idle" when none runs
    call,           \* [op, user, months, caller] of the running / last call
    repos,          \* the call's local list of repository objects
    page,           \* get_repo_count's page counter
    idx,            \* index in repos of the next repository to fetch
    dates,          \* get_daily_commit_dates' local set of day strings
    monthly_counts, \* get_github_monthly_commits' local dict month -> count
    window,         \* [since, until] strings of the running call
    log,            \* the requests the call has issued, in order
    failed,         \* the requests of the call that failed
    last,           \* record of the last completed call
    prev,           \* record of the completed call before it
    home,           \* the Home page script's variables and stage
    faults,         \* failed requests the run may still see (-1: any number)
    calls,          \* direct calls the run may still start (-1: any number)
    dates_arg,      \* SpecDates: the list handed to the pure functions
    streak_ret,     \* SpecDates: compute_streak's result (-1: not run)
    weekly_ret      \* SpecDates: get_weekly_streak_increase's result

vars == <<srv, now, clock, cache, pc, call, repos, page, idx, dates,
          monthly_counts, window, log, failed, last, prev, home,
          faults, calls, dates_arg, streak_ret, weekly_ret>>

frameVars == <<repos, page, idx, dates, monthly_counts, window, failed>>
pureVars == <<dates_arg, streak_ret, weekly_ret>>
envVars == <<srv, now>>

\* The entries of `failed`: the repository-listing request, and the commits
\* request of a repository.
ListingRequest == <<"repos">>
CommitsRequest(name) == <<"commits", name>>

\* The environment's failure budget: a request may fail while it lasts.
MayBe(out) == out = "200" \/ faults # 0
Spend(out) == IF out # "200" /\ faults > 0 THEN faults - 1 ELSE faults

Min(a, b) == IF a < b THEN a ELSE b

\* A request as sent: page / per_page are 0 when the parameter is absent,
\* since / until are <<>> when absent.
Request(endpoint, user, repo, pg, per_page, since, until) ==
    [endpoint |-> endpoint, user |-> user, repo |-> repo, page |-> pg,
     per_page |-> per_page, since |-> since, until |-> until]

\* The page and page size the upstream serves for a request: its own
\* defaults (page 1, its default page size) for absent parameters.
EffectivePage(req) == IF req.page = 0 THEN 1 ELSE req.page
EffectivePerPage(acct, req) ==
    IF req.per_page = 0 THEN acct.perPage ELSE req.per_page

PageOf(seq, pg, per_page) ==
    SubSeq(seq, (pg - 1) * per_page + 1, Min(Len(seq), pg * per_page))

\* GET /users/{user}/repos: one page of the account's repositories.
ListResponse(acct, req) ==
    PageOf(acct.repos, EffectivePage(req), EffectivePerPage(acct, req))

RECURSIVE InWindow(_, _, _)
InWindow(commits, since, until) ==
    IF commits = <<>> THEN <<>>
    ELSE LET c == Head(commits)
             keep == StrGeq(c, since) /\ (until = <<>> \/ StrGeq(until, c))
         IN  (IF keep THEN <<c>> ELSE <<>>)
             \o InWindow(Tail(commits), since, until)

\* GET /repos/{user}/{repo}/commits: one page (newest first) of the
\* commits authored in [since, until].
CommitsResponse(acct, req) ==
    PageOf(InWindow(acct.commits[req.repo], req.since, req.until),
           EffectivePage(req), EffectivePerPage(acct, req))

\* datetime.isoformat() of (now - timedelta(days=n))
IsoMinusDays(t, n) == DateStr(t.day - n) \o <<t.hour>>

\* ----------------------------------------------------------- results
Return(v) == [kind |-> "return", value |-> v]
ReturnNone == [kind |-> "none", value |-> <<>>]
Raise(e) == [kind |-> "raise", value |-> e]
NoCall == [op |-> "", user |-> "", months |-> 0, caller |-> "",
           ret |-> Raise(""), nreq |-> 0, nfail |-> 0, at |-> 0,
           hit |-> FALSE]
SameRet(a, b) ==
    /\ a.kind = b.kind
    /\ (a.kind = "return" => a.value = b.value)

\* -------------------------------------------------------------- cache
CacheKeys == CachedOps \X Users \X MonthsArgs
NoEntry == [present |-> FALSE, at |-> 0, ret |-> ReturnNone]
Key(c) == <<c.op, c.user, c.months>>
\* An entry served up to and including the instant its ttl has passed.
CacheHitThroughTTL(entry, t) == entry.present /\ t - entry.at <= TTL
\* st.cache_data with ttl: an entry is served until ttl seconds have passed.
CacheHitAt(entry, t) == entry.present /\ t - entry.at < TTL
CacheHit(k) == CacheHitAt(cache[k], clock)
\* The wrapper stores whatever the function returns (None included); a
\* raised exception stores nothing.
CacheStore(c, r) ==
    IF c.op \in CachedOps /\ r.kind # "raise"
    THEN [cache EXCEPT ![Key(c)] = [present |-> TRUE, at |-> clock, ret |-> r]]
    ELSE cache

\* ---------------------------------------------------------- Home page
HomeOff == [stage |-> "off", repo_count |-> 0, repos_this_year |-> 0,
            commit_dates |-> <<>>, streak_days |-> 0,
            increase_this_week |-> 0, prev_year_count |-> 0,
            df |-> ReturnNone, shown |-> ""]
HomeResting == {"off", "rendered", "crashed"}

\* `if df is not None and not df.empty` chooses the chart, else st.info.
HomeShows(df) ==
    IF df.kind = "return" /\ df.value # <<>> THEN "chart" ELSE "message"

\* The Home script after the call it was waiting for came back with r: an
\* exception ends the script run, a value is bound and the script goes on.
HomeAfter(h, op, r) ==
    IF r.kind = "raise" THEN [h EXCEPT !.stage = "crashed"]
    ELSE IF op = "get_repo_count"
    THEN [h EXCEPT !.repo_count = r.value, !.stage = "repos_this_year"]
    ELSE IF op = "get_repos_created_this_year"
    THEN [h EXCEPT !.repos_this_year = r.value, !.stage = "commit_dates"]
    ELSE IF op = "get_daily_commit_dates"
    THEN [h EXCEPT !.commit_dates = r.value,
                   !.streak_days = compute_streak(r.value, now.day),
                   !.increase_this_week =
                       get_weekly_streak_increase(r.value, now.day),
                   !.prev_year_count = h.repo_count - h.repos_this_year,
                   !.stage = "monthly"]
    ELSE [h EXCEPT !.df = r, !.shown = HomeShows(r), !.stage = "rendered"]

\* ------------------------------------------------------ call machinery
\* The running call c ends with r after issuing the requests lg.
Complete(c, r, lg, h) ==
    /\ pc' = "idle"
    /\ log' = lg
    /\ cache' = CacheStore(c, r)
    /\ prev' = last
    /\ last' = [op |-> c.op, user |-> c.user, months |-> c.months,
                caller |-> c.caller, ret |-> r, nreq |-> Len(lg),
                nfail |-> Cardinality(failed'), at |-> clock, hit |-> FALSE]
    /\ home' = IF c.caller = "home" THEN HomeAfter(h, c.op, r) ELSE h

FirstPc(op) ==
    IF op = "get_repo_count" THEN "repo_count"
    ELSE IF op = "get_repos_created_this_year" THEN "this_year"
    ELSE IF op = "get_daily_commit_dates" THEN "daily_list"
    ELSE "monthly_list"

\* A call of c.op begins.  A cached operation with a live cache entry
\* returns the entry at once; otherwise the function body starts.
Begin(c, h) ==
    /\ pc = "idle"
    /\ call' = c
    /\ IF c.op \in CachedOps /\ CacheHit(Key(c))
       THEN /\ pc' = "idle"
            /\ log' = <<>>
            /\ prev' = last
            /\ last' = [op |-> c.op, user |-> c.user, months |-> c.months,
                        caller |-> c.caller, ret |-> cache[Key(c)].ret,
                        nreq |-> 0, nfail |-> 0, at |-> clock, hit |-> TRUE]
            /\ home' = IF c.caller = "home"
                       THEN HomeAfter(h, c.op, cache[Key(c)].ret) ELSE h
            /\ UNCHANGED <<cache, frameVars>>
       ELSE /\ pc' = FirstPc(c.op)
            /\ log' = <<>>
            /\ repos' = <<>>
            /\ page' = 1
            /\ idx' = 1
            /\ dates' = {}
            /\ monthly_counts' = <<>>
            /\ window' = [since |-> <<>>, until |-> <<>>]
            /\ failed' = {}
            /\ home' = h
            /\ UNCHANGED <<cache, last, prev>>
    /\ UNCHANGED <<envVars, clock, faults, pureVars>>

\* Any operation called directly with any arguments.
DirectCall ==
    /\ home.stage \in HomeResting
    /\ calls # 0
    /\ calls' = IF calls > 0 THEN calls - 1 ELSE calls
    /\ \E o \in Ops, u \in Users, m \in MonthsArgs :
         /\ (o \notin CachedOps => m = 6)
         /\ Begin([op |-> o, user |-> u,
                   months |-> IF o \in CachedOps THEN m ELSE 0,
                   caller |-> "direct"], home)

\* The Home page script runs from its top: repo_count = get_repo_count(..)
HomeRender ==
    /\ home.stage \in HomeResting
    /\ UNCHANGED calls
    /\ Begin([op |-> "get_repo_count", user |-> GITHUB_USER, months |-> 0,
              caller |-> "home"],
             [HomeOff EXCEPT !.stage = "repo_count"])

\* The script's next call.
HomeNext ==
    /\ home.stage \in {"repos_this_year", "commit_dates", "monthly"}
    /\ UNCHANGED calls
    /\ Begin(IF home.stage = "repos_this_year"
             THEN [op |-> "get_repos_created_this_year",
                   user |-> GITHUB_USER, months |-> 0, caller |-> "home"]
             ELSE IF home.stage = "commit_dates"
             THEN [op |-> "get_daily_commit_dates", user |-> GITHUB_USER,
                   months |-> 6, caller |-> "home"]
             ELSE [op |-> "get_github_monthly_commits",
                   user |-> GITHUB_USER, months |-> 5, caller |-> "home"],
             home)

\* ------------------------------------------------------ get_repo_count
\* Largest page counter the listing loop is followed to.
MaxPage == 3

\* len([r for r in repos if not r.get("fork")]): the list positions kept.
CountNonFork(rs) == Cardinality({i \in 1..Len(rs) : ~rs[i].fork})

\* The request requests.get(url, headers=headers) sends: the params dict
\* (type, per_page, page) is built but not handed to requests.get.
RepoCountRequest(user, pg) == Request("repos", user, "", 0, 0, <<>>, <<>>)

\* What a non-200 answer inside the loop leaves of the pages fetched so far.
KeptOnFailure(rs) == rs

\* One iteration of `while True`: request, status test, extend, size test.
RepoCountStep ==
    /\ pc = "repo_count"
    /\ \E out \in Outcomes :
         /\ MayBe(out)
         /\ faults' = Spend(out)
         /\ failed' = IF out = "200" THEN failed ELSE failed \cup {ListingRequest}
         /\ LET req == RepoCountRequest(call.user, page)
                lg == Append(log, req)
                data == ListResponse(srv[call.user], req)
            IN  IF out = "error"
                THEN /\ Complete(call, Raise("ConnectionError"), lg, home)
                     /\ UNCHANGED <<repos, page>>
                ELSE IF out # "200"
                THEN /\ repos' = KeptOnFailure(repos)
                     /\ Complete(call, Return(CountNonFork(repos')), lg, home)
                     /\ UNCHANGED page
                ELSE IF data = <<>>
                THEN /\ Complete(call, Return(CountNonFork(repos)), lg, home)
                     /\ UNCHANGED <<repos, page>>
                ELSE IF Len(data) < PerPage
                THEN /\ repos' = repos \o data
                     /\ Complete(call, Return(CountNonFork(repos')), lg, home)
                     /\ UNCHANGED page
                ELSE /\ page < MaxPage
                     /\ repos' = repos \o data
                     /\ page' = page + 1
                     /\ log' = lg
                     /\ UNCHANGED <<pc, cache, last, prev, home>>
    /\ UNCHANGED <<envVars, clock, call, idx, dates, monthly_counts, window,
                   calls, pureVars>>

\* ----------------------------------------- get_repos_created_this_year
\* sum(1 for r in repos if r["created_at"].startswith(str(year)))
CountCreatedIn(rs, year) ==
    Cardinality({i \in 1..Len(rs) : Prefix(rs[i].created_at, 1) = <<year>>})

\* datetime.now().year
YearOf(t) == DateStr(t.day)[1]

ThisYearStep ==
    /\ pc = "this_year"
    /\ \E out \in Outcomes :
         /\ MayBe(out)
         /\ faults' = Spend(out)
         /\ failed' = IF out = "200" THEN failed ELSE failed \cup {ListingRequest}
         /\ LET req == Request("repos", call.user, "", 0, PerPage, <<>>, <<>>)
                lg == Append(log, req)
                data == ListResponse(srv[call.user], req)
            IN  IF out = "error"
                THEN /\ Complete(call, Raise("ConnectionError"), lg, home)
                     /\ UNCHANGED repos
                ELSE IF out # "200"
                THEN /\ Complete(call, Return(0), lg, home)
                     /\ UNCHANGED repos
                ELSE /\ repos' = data
                     /\ Complete(call, Return(CountCreatedIn(data, YearOf(now))),
                                 lg, home)
    /\ UNCHANGED <<envVars, clock, call, page, idx, dates, monthly_counts,
                   window, calls, pureVars>>

\* --------------------------------------------- get_daily_commit_dates
\* for c in commits: dates.add(c["commit"]["author"]["date"][:10])
DayStrings(commits) == {Prefix(commits[i], 3) : i \in 1..Len(commits)}

\* repos = github_request(repos_url, {"type": "owner"}); a non-2xx answer
\* or a network error raises out of the function (no try around it).
DailyListStep ==
    /\ pc = "daily_list"
    /\ \E out \in Outcomes :
         /\ MayBe(out)
         /\ faults' = Spend(out)
         /\ failed' = IF out = "200" THEN failed ELSE failed \cup {ListingRequest}
         /\ LET req == Request("repos", call.user, "", 0, 0, <<>>, <<>>)
                lg == Append(log, req)
                data == ListResponse(srv[call.user], req)
            IN  IF out = "error"
                THEN /\ Complete(call, Raise("ConnectionError"), lg, home)
                     /\ UNCHANGED <<repos, window>>
                ELSE IF out # "200"
                THEN /\ Complete(call, Raise("HTTPError"), lg, home)
                     /\ UNCHANGED <<repos, window>>
                ELSE /\ repos' = data
                     /\ window' = [since |->
                                     IsoMinusDays(now, call.months * DaysPerMonth),
                                   until |-> <<>>]
                     /\ IF data = <<>>
                        THEN Complete(call, Return(sorted({})), lg, home)
                        ELSE /\ pc' = "daily_commits"
                             /\ log' = lg
                             /\ UNCHANGED <<cache, last, prev, home>>
    /\ UNCHANGED <<envVars, clock, call, page, idx, dates, monthly_counts,
                   calls, pureVars>>

\* One iteration of `for repo in repos`: the commits request inside
\* try/except-continue, then the dates added; after the last repository
\* the function returns sorted(dates).
DailyCommitsStep ==
    /\ pc = "daily_commits"
    /\ \E out \in Outcomes :
         /\ MayBe(out)
         /\ faults' = Spend(out)
         /\ LET repo == repos[idx]
                req == Request("commits", call.user, repo.name, 0, 0,
                               window.since, <<>>)
                lg == Append(log, req)
                commits == CommitsResponse(srv[call.user], req)
                d2 == IF out = "200" THEN dates \cup DayStrings(commits)
                      ELSE dates
            IN  /\ dates' = d2
                /\ failed' = IF out = "200" THEN failed
                             ELSE failed \cup {CommitsRequest(repo.name)}
                /\ IF idx = Len(repos)
                   THEN /\ Complete(call, Return(sorted(d2)), lg, home)
                        /\ UNCHANGED idx
                   ELSE /\ idx' = idx + 1
                        /\ log' = lg
                        /\ UNCHANGED <<pc, cache, last, prev, home>>
    /\ UNCHANGED <<envVars, clock, call, repos, page, monthly_counts, window,
                   calls, pureVars>>

\* ----------------------------------------- get_github_monthly_commits
\* monthly_counts[month_str] = monthly_counts.get(month_str, 0) + 1
CountOneOverwrite(counts, month_str) ==
    [k \in DOMAIN counts \cup {month_str} |->
        IF k = month_str THEN 1 ELSE counts[k]]

CountOne(counts, month_str) ==
    IF month_str \in DOMAIN counts
    THEN [counts EXCEPT ![month_str] = @ + 1]
    ELSE [k \in DOMAIN counts \cup {month_str} |->
             IF k = month_str THEN 1 ELSE counts[k]]

RECURSIVE CountMonths(_, _)
CountMonths(commits, counts) ==
    IF commits = <<>> THEN counts
    ELSE CountMonths(Tail(commits), CountOne(counts, Prefix(Head(commits), 2)))

\* The empty dict.
EmptyCounts == [k \in {} |-> 0]

\* pd.to_datetime("YYYY-MM"): the first day of the month.
to_datetime(month_str) == ToOrdinal(<<month_str[1], month_str[2], 1>>)

\* DataFrame(items, columns=[Month, Commits]) with Month parsed, sorted
\* ascending by Month: a sequence of rows.
RECURSIVE SortRows(_)
SortRows(rows) ==
    IF rows = {} THEN <<>>
    ELSE LET lo == CHOOSE r \in rows : \A z \in rows : r.Month <= z.Month
         IN  <<lo>> \o SortRows(rows \ {lo})

DataFrame(counts) ==
    SortRows({[Month |-> to_datetime(k), Commits |-> counts[k]] :
                 k \in DOMAIN counts})

\* `if not monthly_counts: return None`, else the DataFrame.
MonthlyResultAlwaysFrame(counts) == Return(DataFrame(counts))

MonthlyResult(counts) ==
    IF DOMAIN counts = {} THEN ReturnNone ELSE Return(DataFrame(counts))

\* requests.get(repos_url) and raise_for_status() inside the try: both a
\* network error and a non-2xx answer end in `except: return None`.
MonthlyListStep ==
    /\ pc = "monthly_list"
    /\ \E out \in Outcomes :
         /\ MayBe(out)
         /\ faults' = Spend(out)
         /\ failed' = IF out = "200" THEN failed ELSE failed \cup {ListingRequest}
         /\ LET req == Request("repos", call.user, "", 0, 0, <<>>, <<>>)
                lg == Append(log, req)
                data == ListResponse(srv[call.user], req)
            IN  IF out # "200"
                THEN /\ Complete(call, ReturnNone, lg, home)
                     /\ UNCHANGED <<repos, window, monthly_counts>>
                ELSE /\ repos' = data
                     /\ window' = [since |->
                                     IsoMinusDays(now, call.months * DaysPerMonth),
                                   until |-> IsoMinusDays(now, 0)]
                     /\ monthly_counts' = EmptyCounts
                     /\ IF data = <<>>
                        THEN Complete(call, MonthlyResult(EmptyCounts), lg, home)
                        ELSE /\ pc' = "monthly_commits"
                             /\ log' = lg
                             /\ UNCHANGED <<cache, last, prev, home>>
    /\ UNCHANGED <<envVars, clock, call, page, idx, dates, calls, pureVars>>

\* One iteration of `for repo in repos`: a 200 answer is counted, another
\* status is skipped, and requests.get raising leaves the loop for the
\* function's `except Exception: return None`.
MonthlyCommitsStep ==
    /\ pc = "monthly_commits"
    /\ \E out \in Outcomes :
         /\ MayBe(out)
         /\ faults' = Spend(out)
         /\ LET repo == repos[idx]
                req == Request("commits", call.user, repo.name, 0, 0,
                               window.since, window.until)
                lg == Append(log, req)
                commits == CommitsResponse(srv[call.user], req)
                c2 == IF out = "200" THEN CountMonths(commits, monthly_counts)
                      ELSE monthly_counts
            IN  /\ failed' = IF out = "200" THEN failed
                             ELSE failed \cup {CommitsRequest(repo.name)}
                /\ IF out = "error"
                   THEN /\ Complete(call, ReturnNone, lg, home)
                        /\ UNCHANGED <<idx, monthly_counts>>
                   ELSE /\ monthly_counts' = c2
                        /\ IF idx = Len(repos)
                           THEN /\ Complete(call, MonthlyResult(c2), lg, home)
                                /\ UNCHANGED idx
                           ELSE /\ idx' = idx + 1
                                /\ log' = lg
                                /\ UNCHANGED <<pc, cache, last, prev, home>>
    /\ UNCHANGED <<envVars, clock, call, repos, page, dates, window, calls, pureVars>>

\* ------------------------------------------------------------- time
\* Hours of cache time the clock is followed for.
MaxClockHours == 2

SecondsPerHour == 60 * 60

\* datetime.now() after the process has run for `seconds`, given that it
\* read t when it had run for `before` seconds (t on the full hour at 0).
NowAfter(t, before, seconds) ==
    LET h == t.hour + (seconds \div SecondsPerHour)
                    - (before \div SecondsPerHour)
    IN  [day |-> t.day + (h \div 24), hour |-> h % 24]

\* Time passes between calls: just under, or exactly, one TTL at a time.
\* The cache's clock and the wall clock datetime.now() advance together.
Tick ==
    /\ pc = "idle"
    /\ home.stage \in HomeResting
    /\ \E d \in {TTL - 1, TTL} :
         /\ clock + d <= MaxClockHours * TTL
         /\ clock' = clock + d
         /\ now' = NowAfter(now, clock, clock + d)
    /\ UNCHANGED <<srv, cache, pc, call, frameVars, log, last, prev, home,
                   faults, calls, pureVars>>

\* --------------------------------------------------- upstream accounts
Repo(name, fork, created_at) ==
    [name |-> name, fork |-> fork, created_at |-> created_at]

Account(rs, cs, per_page) == [repos |-> rs, commits |-> cs, perPage |-> per_page]

\* The wall clock when the process starts: 2025-03-02, 12h.
Nows == {[day |-> ToOrdinal(<<2025, 3, 2>>), hour |-> 12]}

\* Default page sizes of the upstream: the hosting API's documented default
\* (30) and a small one, so that small accounts span several pages too.
DefaultPageSizes == {2, 30}

NoRepos == <<>>
NoCommits == [n \in 1..3 |-> <<>>]

\* The spec's histogram example: commits on 2025-01-05, 2025-01-20 and
\* 2025-02-01; one fork; one repository created before this year.
ReposExample ==
    <<Repo(1, FALSE, <<2025, 1, 2, 8>>), Repo(2, TRUE, <<2025, 2, 1, 8>>),
      Repo(3, FALSE, <<2023, 5, 5, 8>>)>>
CommitsExample ==
    [n \in 1..3 |->
        IF n = 1 THEN << <<2025, 1, 20, 10>>, <<2025, 1, 5, 10>> >>
        ELSE IF n = 2 THEN << <<2025, 2, 1, 10>> >>
        ELSE <<>>]

\* Commits on today and the four days before it, none on the sixth day
\* back, one on the seventh; spread over three repositories.
ReposStreak ==
    <<Repo(1, FALSE, <<2024, 6, 1, 8>>), Repo(2, FALSE, <<2025, 1, 9, 8>>),
      Repo(3, FALSE, <<2025, 2, 20, 8>>)>>
CommitsStreak ==
    [n \in 1..3 |->
        IF n = 1 THEN << <<2025, 3, 2, 9>>, <<2025, 3, 1, 23>> >>
        ELSE IF n = 2 THEN << <<2025, 2, 28, 10>>, <<2025, 2, 27, 10>> >>
        ELSE << <<2025, 2, 26, 1>>, <<2025, 2, 24, 1>> >>]

\* Window edges: a commit later today than now, one between 150 and 180
\* days old, one older than 180 days.
ReposEdge ==
    <<Repo(1, TRUE, <<2025, 1, 1, 0>>), Repo(2, FALSE, <<2024, 12, 31, 23>>)>>
CommitsEdge ==
    [n \in 1..3 |->
        IF n = 1 THEN << <<2025, 3, 2, 20>>, <<2024, 9, 10, 10>> >>
        ELSE IF n = 2 THEN << <<2024, 8, 1, 1>> >>
        ELSE <<>>]

\* Forks created this year outnumber the owned repositories; one
\* repository holds three commits of one month.
ReposForks ==
    <<Repo(1, TRUE, <<2025, 1, 1, 0>>), Repo(2, TRUE, <<2025, 2, 2, 0>>),
      Repo(3, FALSE, <<2024, 2, 2, 0>>)>>
CommitsForks ==
    [n \in 1..3 |->
        IF n = 1 THEN << <<2025, 2, 3, 1>>, <<2025, 2, 2, 1>>, <<2025, 2, 1, 1>> >>
        ELSE <<>>]

SmallAccounts ==
    {<<NoRepos, NoCommits>>, <<ReposExample, CommitsExample>>,
     <<ReposStreak, CommitsStreak>>, <<ReposEdge, CommitsEdge>>,
     <<ReposForks, CommitsForks>>}

\* The other account the upstream serves.
OtherAccount(per_page) ==
    Account(<<Repo(1, FALSE, <<2025, 2, 9, 0>>)>>,
            [n \in 1..3 |-> IF n = 1 THEN << <<2025, 2, 10, 1>> >> ELSE <<>>],
            per_page)

InitProgram ==
    /\ clock = 0
    /\ cache = [k \in CacheKeys |-> NoEntry]
    /\ pc = "idle"
    /\ call = [op |-> "", user |-> "", months |-> 0, caller |-> ""]
    /\ repos = <<>>
    /\ page = 1
    /\ idx = 1
    /\ dates = {}
    /\ monthly_counts = <<>>
    /\ window = [since |-> <<>>, until |-> <<>>]
    /\ log = <<>>
    /\ failed = {}
    /\ last = NoCall
    /\ prev = NoCall
    /\ home = HomeOff

InitPure ==
    /\ dates_arg = <<>>
    /\ streak_ret = -1
    /\ weekly_ret = -1

Init ==
    /\ now \in Nows
    /\ \E a \in SmallAccounts, pp \in DefaultPageSizes :
         srv = [u \in Users |->
                  IF u = GITHUB_USER THEN Account(a[1], a[2], pp)
                  ELSE OtherAccount(pp)]
    /\ InitProgram
    /\ InitPure
    /\ faults = -1
    /\ calls = -1

\* Spec: each operation called, with any arguments, on a freshly started
\* process (empty cache), every request free to fail.
FirstCall ==
    /\ last = NoCall
    /\ DirectCall

Next ==
    \/ FirstCall
    \/ RepoCountStep
    \/ ThisYearStep
    \/ DailyListStep
    \/ DailyCommitsStep
    \/ MonthlyListStep
    \/ MonthlyCommitsStep

Spec == Init /\ [][Next]_vars

\* ------------------------------------------------ other specifications
\* Failed requests a run of SpecHome or SpecCache may see.
MaxFaults == 2
\* Direct calls a run of SpecCache makes.
MaxCalls == 2

\* SpecHome: the Home page script run again and again (Streamlit reruns it
\* on every interaction) while time passes.
InitHome ==
    /\ now \in Nows
    /\ \E a \in SmallAccounts, pp \in DefaultPageSizes :
         srv = [u \in Users |->
                  IF u = GITHUB_USER THEN Account(a[1], a[2], pp)
                  ELSE OtherAccount(pp)]
    /\ InitProgram
    /\ InitPure
    /\ faults = MaxFaults
    /\ calls = 0

NextHome ==
    \/ HomeRender
    \/ HomeNext
    \/ RepoCountStep
    \/ ThisYearStep
    \/ DailyListStep
    \/ DailyCommitsStep
    \/ MonthlyListStep
    \/ MonthlyCommitsStep
    \/ Tick

SpecHome == InitHome /\ [][NextHome]_vars

\* SpecCache: a process's first direct calls, with time passing between them.
InitCache ==
    /\ now \in Nows
    /\ \E a \in SmallAccounts, pp \in DefaultPageSizes :
         srv = [u \in Users |->
                  IF u = GITHUB_USER THEN Account(a[1], a[2], pp)
                  ELSE OtherAccount(pp)]
    /\ InitProgram
    /\ InitPure
    /\ faults = MaxFaults
    /\ calls = MaxCalls

NextCache ==
    \/ DirectCall
    \/ RepoCountStep
    \/ ThisYearStep
    \/ DailyListStep
    \/ DailyCommitsStep
    \/ MonthlyListStep
    \/ MonthlyCommitsStep
    \/ Tick

SpecCache == InitCache /\ [][NextCache]_vars

\* SpecRecover: one account's operations called directly again and again on
\* one process, with default arguments, requests failing and time passing.
RecoverAccounts ==
    {<<ReposExample, CommitsExample>>, <<ReposEdge, CommitsEdge>>}

InitRecover ==
    /\ now \in Nows
    /\ \E a \in RecoverAccounts, pp \in DefaultPageSizes :
         srv = [u \in Users |->
                  IF u = GITHUB_USER THEN Account(a[1], a[2], pp)
                  ELSE OtherAccount(pp)]
    /\ InitProgram
    /\ InitPure
    /\ faults = MaxFaults
    /\ calls = MaxCalls

RecoverCall ==
    /\ DirectCall
    /\ call'.user = GITHUB_USER
    /\ call'.op \in CachedOps => call'.months = 6

NextRecover ==
    \/ RecoverCall
    \/ RepoCountStep
    \/ ThisYearStep
    \/ DailyListStep
    \/ DailyCommitsStep
    \/ MonthlyListStep
    \/ MonthlyCommitsStep
    \/ Tick

SpecRecover == InitRecover /\ [][NextRecover]_vars

\* SpecListing: the two listing operations against accounts of about one
\* response page and more.  The page size the upstream uses when a request
\* names none is the hosting API's documented default (30) or its
\* documented maximum (100).
ListingPageSizes == {30, PerPage}
BigSizes == {31, PerPage - 1, PerPage, PerPage + 1, 2 * PerPage + 1}

\* n repositories: every third a fork, every second created in 2025.
BigRepos(n) ==
    [i \in 1..n |->
        Repo(i, i % 3 = 0,
             IF i % 2 = 0 THEN <<2025, 1, 1, 0>> ELSE <<2024, 1, 1, 0>>)]

InitListing ==
    /\ now \in Nows
    /\ \E n \in BigSizes, pp \in ListingPageSizes :
         srv = [u \in Users |->
                  IF u = GITHUB_USER
                  THEN Account(BigRepos(n), [i \in 1..n |-> <<>>], pp)
                  ELSE OtherAccount(pp)]
    /\ InitProgram
    /\ InitPure
    /\ faults = -1
    /\ calls = -1

ListingCall ==
    /\ DirectCall
    /\ call'.op \in {"get_repo_count", "get_repos_created_this_year"}

NextListing ==
    \/ ListingCall
    \/ RepoCountStep
    \/ ThisYearStep

SpecListing == InitListing /\ [][NextListing]_vars

\* SpecDates: the two pure date functions applied to sorted lists of day
\* strings drawn from the days up to MaxOffset before today, for a today in
\* the middle of a month, one just after a leap day, and one just after
\* New Year.
DateNows ==
    {[day |-> ToOrdinal(<<2025, 3, 2>>), hour |-> 12],
     [day |-> ToOrdinal(<<2024, 3, 4>>), hour |-> 0],
     [day |-> ToOrdinal(<<2025, 1, 3>>), hour |-> 23]}

InitDates ==
    /\ now \in DateNows
    /\ srv = [u \in Users |-> OtherAccount(30)]
    /\ InitProgram
    /\ faults = 0
    /\ calls = 0
    /\ \E S \in SUBSET {DateStr(now.day - k) : k \in 0..MaxOffset} :
         dates_arg = sorted(S)
    /\ streak_ret = -1
    /\ weekly_ret = -1

\* streak_days = compute_streak(commit_dates)
StreakCall ==
    /\ streak_ret = -1
    /\ streak_ret' = compute_streak(dates_arg, now.day)
    /\ UNCHANGED <<envVars, clock, cache, pc, call, frameVars, log, last, prev,
                   home, faults, calls, dates_arg, weekly_ret>>

\* increase_this_week = get_weekly_streak_increase(commit_dates)
WeeklyCall ==
    /\ weekly_ret = -1
    /\ weekly_ret' = get_weekly_streak_increase(dates_arg, now.day)
    /\ UNCHANGED <<envVars, clock, cache, pc, call, frameVars, log, last, prev,
                   home, faults, calls, dates_arg, streak_ret>>

NextDates ==
    \/ StreakCall
    \/ WeeklyCall

SpecDates == InitDates /\ [][NextDates]_vars

\* ================================================================ claims
\* The call of op that has just completed by running its body (not served
\* from the cache): the call's local variables are still in place.
Done(op) == pc = "idle" /\ last.op = op /\ ~last.hit

\* The repositories the completed call listed, and those among them whose
\* commits request did not fail.
Listed == {repos[i].name : i \in 1..Len(repos)}
Fetched == {n \in Listed : CommitsRequest(n) \notin failed}

\* The upstream's answer to the call's commits request for repository n.
Answer(n) ==
    CommitsResponse(srv[call.user],
                    Request("commits", call.user, n, 0, 0,
                            window.since, window.until))

\* The commits answered for the repositories S: (repository, position).
CommitsOf(S) == UNION {{<<n, i>> : i \in 1..Len(Answer(n))} : n \in S}
MonthOf(c) == <<Answer(c[1])[c[2]][1], Answer(c[1])[c[2]][2]>>
DayOf(c) ==
    <<Answer(c[1])[c[2]][1], Answer(c[1])[c[2]][2], Answer(c[1])[c[2]][3]>>

RECURSIVE SumCommits(_)
SumCommits(df) ==
    IF df = <<>> THEN 0 ELSE Head(df).Commits + SumCommits(Tail(df))

\* r is the histogram of the commits answered for the repositories S: one
\* row per month that has a commit, holding the number of its commits; the
\* absent value when there is no commit.
IsHistogramOf(r, S) ==
    LET months == {MonthOf(c) : c \in CommitsOf(S)}
    IN  IF months = {} THEN r.kind = "none"
        ELSE /\ r.kind = "return"
             /\ Len(r.value) = Cardinality(months)
             /\ \A m \in months :
                    \E i \in 1..Len(r.value) :
                        /\ r.value[i].Month = ToOrdinal(<<m[1], m[2], 1>>)
                        /\ r.value[i].Commits =
                               Cardinality({c \in CommitsOf(S) : MonthOf(c) = m})
             /\ SumCommits(r.value) = Cardinality(CommitsOf(S))

\* r is the no-data value of op.
IsNoData(op, r) ==
    IF op = "get_github_monthly_commits" THEN r.kind = "none"
    ELSE IF op = "get_daily_commit_dates" THEN r = Return(<<>>)
    ELSE r = Return(0)

\* C1: whatever request of an aggregation operation fails, no exception
\* leaves the operation, and when the repository-listing request failed the
\* operation returns its no-data value (0, the empty list, None).
C1_NoExceptionEscapes ==
    \A op \in Ops :
        Done(op) =>
            /\ last.ret.kind # "raise"
            /\ (ListingRequest \in failed => IsNoData(op, last.ret))

\* C2: when the commits request of exactly one listed repository fails,
\* get_daily_commit_dates and get_github_monthly_commits still request every
\* listed repository and return the aggregate of all the others' commits.
C2_PartialFailureKeepsOthers ==
    /\ Done("get_daily_commit_dates") /\ ListingRequest \notin failed
         /\ Cardinality(failed) = 1
       => /\ Len(log) = 1 + Len(repos)
          /\ last.ret = Return(sorted({DayOf(c) : c \in CommitsOf(Fetched)}))
    /\ Done("get_github_monthly_commits") /\ ListingRequest \notin failed
         /\ Cardinality(failed) = 1
       => /\ Len(log) = 1 + Len(repos)
          /\ IsHistogramOf(last.ret, Fetched)

\* The part of C2 that get_daily_commit_dates keeps: any number of failed
\* commits requests are skipped and the others aggregated.
DailySkipsFailures ==
    Done("get_daily_commit_dates") /\ ListingRequest \notin failed
    => /\ Len(log) = 1 + Len(repos)
       /\ last.ret = Return(sorted({DayOf(c) : c \in CommitsOf(Fetched)}))

\* C3: a non-2xx answer to any page request of the listing, the first or a
\* later one, leaves no repository: get_repo_count and
\* get_repos_created_this_year return 0.
C3_ListingAllOrNothing ==
    \A op \in {"get_repo_count", "get_repos_created_this_year"} :
        Done(op) /\ ListingRequest \in failed /\ last.ret.kind = "return"
        => last.ret.value = 0 /\ repos = <<>>

\* C4: of two consecutive calls of one operation with the same arguments,
\* less than a TTL apart and with no failed request, the second issues no
\* request and returns what the first returned.
C4_SecondCallServedFromCache ==
    /\ pc = "idle" /\ prev.op # ""
    /\ last.op = prev.op /\ last.user = prev.user /\ last.months = prev.months
    /\ last.at - prev.at < TTL
    /\ prev.nfail = 0 /\ last.nfail = 0
    => last.nreq = 0 /\ SameRet(last.ret, prev.ret)

\* C5: when no listing request fails, get_repo_count returns the number of
\* non-fork repositories among all the account's repositories, each counted
\* once, which is at most the number of its repositories.
C5_CountsAllNonForks ==
    Done("get_repo_count") /\ failed = {} /\ last.ret.kind = "return"
    => LET all == srv[call.user].repos
       IN  /\ last.ret.value = Cardinality({i \in 1..Len(all) : ~all[i].fork})
           /\ last.ret.value <= Len(all)

\* C6: the k-th request of get_repo_count's listing loop asks the upstream
\* for page k (so no page is requested twice and the loop ends with the
\* first short page).
C6_EachRequestAsksNextPage ==
    call.op = "get_repo_count" =>
        \A i \in 1..Len(log) : EffectivePage(log[i]) = i

\* C7: compute_streak returns the k >= 0 for which today, today-1, ...,
\* today-(k-1) are all in dates and today-k is not.
C7_StreakIsRunEndingToday ==
    streak_ret # -1 =>
        LET days == {ToOrdinal(d) : d \in Range(dates_arg)}
        IN  /\ streak_ret >= 0
            /\ \A i \in 0..(streak_ret - 1) : now.day - i \in days
            /\ now.day - streak_ret \notin days
            /\ (dates_arg = <<>> => streak_ret = 0)

\* Today and the four days before it present, the day before those absent,
\* an earlier day present: the streak is 5.
C7_Witness ==
    LET days == {ToOrdinal(d) : d \in Range(dates_arg)}
    IN  /\ streak_ret = 5
        /\ \A i \in 0..4 : now.day - i \in days
        /\ now.day - 5 \notin days
        /\ now.day - 6 \in days

\* C8: get_weekly_streak_increase returns the number of entries of dates
\* that are no older than today - 7 days (that day included).
C8_WeeklyCountsLastSevenDays ==
    weekly_ret # -1 =>
        weekly_ret = Cardinality({i \in 1..Len(dates_arg) :
                                     ToOrdinal(dates_arg[i]) >= now.day - 7})

\* On {today, today-3, today-10} the result is 2.
C8_Witness ==
    /\ weekly_ret = 2
    /\ {ToOrdinal(d) : d \in Range(dates_arg)}
         = {now.day, now.day - 3, now.day - 10}

\* C9: when the listing and every commits request succeed,
\* get_github_monthly_commits returns, for each month, the number of
\* fetched commits (over all listed repositories) authored in it, and the
\* counts add up to the number of fetched commits.
C9_HistogramCountsFetchedCommits ==
    Done("get_github_monthly_commits") /\ failed = {}
    => IsHistogramOf(last.ret, Listed)

\* Commits on 2025-01-05, 2025-01-20 and 2025-02-01 give
\* {"2025-01": 2, "2025-02": 1}.
C9_Witness ==
    /\ Done("get_github_monthly_commits") /\ failed = {}
    /\ {DayOf(c) : c \in CommitsOf(Listed)}
         = {<<2025, 1, 5>>, <<2025, 1, 20>>, <<2025, 2, 1>>}
    /\ last.ret = Return(<<[Month |-> ToOrdinal(<<2025, 1, 1>>), Commits |-> 2],
                           [Month |-> ToOrdinal(<<2025, 2, 1>>), Commits |-> 1]>>)

\* C10: get_github_monthly_commits returns None when no commit was found;
\* a returned frame is never empty and every count in it is at least 1;
\* the rendered Home page shows the message exactly when the result is
\* absent or empty, and the chart otherwise.
C10_NoCommitsIsAbsent ==
    /\ Done("get_github_monthly_commits") /\ ListingRequest \notin failed
         /\ CommitsOf(Fetched) = {}
       => last.ret.kind = "none"
    /\ pc = "idle" /\ last.op = "get_github_monthly_commits"
         /\ last.ret.kind = "return"
       => /\ last.ret.value # <<>>
          /\ \A i \in 1..Len(last.ret.value) : last.ret.value[i].Commits >= 1
    /\ home.stage = "rendered"
       => /\ home.shown \in {"chart", "message"}
          /\ home.shown = "message"
               <=> (home.df.kind = "none" \/ home.df.value = <<>>)

\* A render whose histogram call listed repositories, fetched them all,
\* found no commit in the window and so shows the message.
C10_Witness ==
    /\ home.stage = "rendered" /\ home.shown = "message"
    /\ Done("get_github_monthly_commits") /\ failed = {}
    /\ repos # <<>> /\ CommitsOf(Listed) = {}

\* The names of all the repositories of the called account, whatever page
\* of the listing they are on.
AllNames == {srv[call.user].repos[i].name : i \in 1..Len(srv[call.user].repos)}

StrictlyAscending(s) == \A i \in 1..(Len(s) - 1) : StrLess(s[i], s[i + 1])

\* C11: get_daily_commit_dates returns a strictly ascending list without
\* duplicates whose entries are exactly the days of the commits answered
\* (since the start of the window, no upper limit) for the repositories
\* whose commits request did not fail, over every repository of the
\* account, on whatever page of the listing it is.
C11_DailyDatesCoverFullListing ==
    Done("get_daily_commit_dates") /\ last.ret.kind = "return"
    => LET S == {n \in AllNames : CommitsRequest(n) \notin failed}
       IN  /\ window.until = <<>>
           /\ StrictlyAscending(last.ret.value)
           /\ Range(last.ret.value) = {DayOf(c) : c \in CommitsOf(S)}

\* The part of C11 that get_daily_commit_dates keeps: the same statement
\* over the repositories of the listing answer it received.
DailyDatesOfListedRepos ==
    Done("get_daily_commit_dates") /\ last.ret.kind = "return"
    => /\ window.until = <<>>
       /\ StrictlyAscending(last.ret.value)
       /\ Range(last.ret.value) = {DayOf(c) : c \in CommitsOf(Fetched)}

\* C12: when its request succeeds, get_repos_created_this_year returns the
\* number of repositories, among all the account's repositories on all
\* pages, whose created_at is in the current calendar year.
C12_ThisYearCountsFullListing ==
    Done("get_repos_created_this_year") /\ failed = {}
       /\ last.ret.kind = "return"
    => last.ret.value = CountCreatedIn(srv[call.user].repos, YearOf(now))

\* The part of C12 that get_repos_created_this_year keeps: the count is
\* over the one page of at most PerPage entries its request is answered.
ThisYearCountsFirstPage ==
    Done("get_repos_created_this_year") /\ failed = {}
       /\ last.ret.kind = "return"
    => /\ Len(log) = 1
       /\ Len(repos) <= PerPage
       /\ last.ret.value = CountCreatedIn(repos, YearOf(now))

\* r is what op returns from the listing it received when every request
\* succeeded (the call's local variables still in place).
IsFreshAggregate(op, r) ==
    IF op = "get_github_monthly_commits" THEN IsHistogramOf(r, Listed)
    ELSE IF op = "get_daily_commit_dates"
    THEN r = Return(sorted({DayOf(c) : c \in CommitsOf(Listed)}))
    ELSE IF op = "get_repo_count" THEN r = Return(CountNonFork(repos))
    ELSE r = Return(CountCreatedIn(repos, YearOf(now)))

\* The requests of the log that went to repository n's commits endpoint.
CommitsRequests(lg, n) ==
    {i \in 1..Len(lg) : lg[i].endpoint = "commits" /\ lg[i].repo = n}

\* C13: a result is served from the cache only while less than one TTL has
\* passed since it was stored; a call made a TTL or more after a call of
\* the same operation and arguments that had a failed request runs the
\* function again, issues requests and, when none of them fails, returns
\* the aggregate of what it fetched; and within a call a failed request is
\* not issued again (a failed listing request is the call's last request, a
\* failed commits request is that repository's only one).
C13_SelfHealing ==
    /\ pc = "idle" /\ last.hit
       => /\ cache[Key(last)].present
          /\ last.at - cache[Key(last)].at < TTL
          /\ last.ret = cache[Key(last)].ret
    /\ pc = "idle" /\ prev.op # ""
         /\ last.op = prev.op /\ last.user = prev.user
         /\ last.months = prev.months
         /\ prev.nfail > 0 /\ last.at - prev.at >= TTL
       => /\ ~last.hit
          /\ last.nreq >= 1
          /\ (last.nfail = 0 => IsFreshAggregate(last.op, last.ret))
    /\ call.op # "" /\ (pc # "idle" \/ ~last.hit)
       => /\ \A n \in AllNames :
                CommitsRequest(n) \in failed
                => Cardinality(CommitsRequests(log, n)) = 1
          /\ ListingRequest \in failed
             => /\ pc = "idle"
                /\ log # <<>>
                /\ log[Len(log)].endpoint = "repos"
                /\ last.nreq = Len(log)

\* A histogram call whose listing request failed returned None; the same
\* call a full TTL later fetched again, without failure, and returned the
\* histogram of the account's commits.
C13_Witness ==
    /\ pc = "idle"
    /\ prev.op = "get_github_monthly_commits" /\ last.op = prev.op
    /\ last.user = prev.user /\ last.months = prev.months
    /\ prev.nfail = 1 /\ prev.nreq = 1 /\ prev.ret.kind = "none"
    /\ last.at - prev.at = TTL
    /\ ~last.hit /\ last.nfail = 0 /\ last.nreq > 1
    /\ last.ret.kind = "return"

\* The log starts with the listing request and goes on with one commits
\* request per listed repository, in listing order, as far as it goes.
RequestsFollowListing(lg, rs) ==
    /\ Len(lg) <= 1 + Len(rs)
    /\ lg # <<>> => lg[1].endpoint = "repos"
    /\ \A i \in 2..Len(lg) :
           lg[i].endpoint = "commits" /\ lg[i].repo = rs[i - 1].name

\* C14: in a call of get_daily_commit_dates or get_github_monthly_commits
\* the listing is requested first, then the commits of the listed
\* repositories one after the other in listing order, and when the call
\* ends after a successful listing each listed repository has been
\* requested exactly once, failed requests included.
C14_EachRepositoryRequestedOnce ==
    call.op \in CachedOps /\ (pc # "idle" \/ ~last.hit)
    => /\ RequestsFollowListing(log, repos)
       /\ (pc = "idle" /\ ListingRequest \notin failed
           => \A i \in 1..Len(repos) :
                  Cardinality(CommitsRequests(log, repos[i].name)) = 1)

\* The part of C14 that both operations keep: listing first, then listing
\* order, each repository at most once, a failed request never repeated.
RequestsInListingOrder ==
    call.op \in CachedOps /\ (pc # "idle" \/ ~last.hit)
    => /\ RequestsFollowListing(log, repos)
       /\ \A i \in 1..Len(repos) :
              Cardinality(CommitsRequests(log, repos[i].name)) <= 1

\* The call that has just ended ran the body of a cached operation and its
\* listing request failed.
ListingFailed(r) ==
    r.op \in CachedOps /\ ~r.hit /\ r.nreq = 1 /\ r.nfail = 1

\* The process's second call has just ended: prev is its first call.
SecondCallEnded == pc = "idle" /\ prev.op # "" /\ calls = MaxCalls - 2

\* A call with a key other than the first call's is not served from the
\* cache (operation, account and months each tell keys apart).
CacheKeysAreSeparate ==
    SecondCallEnded /\ Key(prev) # Key(last) => ~last.hit

\* C15: a call of a cached operation whose listing request failed leaves no
\* entry for its key, so the next call with the same arguments within the
\* TTL runs the function again and issues requests; and a call whose key
\* differs from the stored entry's in operation, account or months is not
\* served that entry.
C15_FailuresAreNotCached ==
    /\ pc = "idle" /\ ListingFailed(last)
       => ~CacheHitAt(cache[Key(last)], last.at)
    /\ pc = "idle" /\ ListingFailed(prev) /\ Key(last) = Key(prev)
         /\ last.at - prev.at < TTL
       => ~last.hit /\ last.nreq >= 1
    /\ CacheKeysAreSeparate

\* The part of C15 that holds of get_daily_commit_dates, whose listing
\* failure raises: nothing is stored and the next call fetches again.
RaisedFailuresAreNotCached ==
    /\ pc = "idle" /\ ListingFailed(last) /\ last.ret.kind = "raise"
       => ~CacheHitAt(cache[Key(last)], last.at)
    /\ pc = "idle" /\ ListingFailed(prev) /\ prev.ret.kind = "raise"
         /\ Key(last) = Key(prev)
       => ~last.hit /\ last.nreq >= 1

\* C16: in a Home render, once both counts are bound, the number of
\* repositories created this year is at most the number of projects, and
\* prev_year_count, once computed, is not negative.
C16_DeltaWithinTotal ==
    /\ home.stage \in {"commit_dates", "monthly", "rendered"}
       => home.repos_this_year <= home.repo_count
    /\ home.stage \in {"monthly", "rendered"}
       => home.prev_year_count >= 0

\* What the Home render keeps of C16: neither count is negative and
\* prev_year_count is their difference.
PrevYearCountIsDifference ==
    /\ home.stage \in {"commit_dates", "monthly", "rendered"}
       => home.repos_this_year >= 0 /\ home.repo_count >= 0
    /\ home.stage \in {"monthly", "rendered"}
       => home.prev_year_count = home.repo_count - home.repos_this_year

====
